---- MODULE Spec2Model ----
(***************************************************************************)
(* Model of the background-removal photo editor: the page component        *)
(* (upload, worker messages, effect handlers, the canvas compositing       *)
(* pipeline applyBackgroundEffect) and the three snapshots of the          *)
(* background-removal worker.                                              *)
(***************************************************************************)
EXTENDS Integers, Sequences, FiniteSets, TLC

(***************************************************************************)
(* Bounds of the model.                                                    *)
(***************************************************************************)
MaxUploads == 2      \* files the user hands to the page in one behaviour
MaxRenders == 2      \* applyBackgroundEffect calls in one behaviour
MaxGestures == 3     \* uploads and effect changes together in one behaviour
MaxCallbacks == 2    \* progress callbacks the library makes in one behaviour
MaxTotal == 1        \* largest `total` the library reports
MaxFaults == 1       \* failing platform calls in one behaviour

(***************************************************************************)
(* Pixels.  A pixel is <<r, g, b, a>>, straight alpha, channels 0..255.    *)
(* A canvas bitmap stores premultiplied colour, so a pixel of alpha 0 has  *)
(* no colour: it is Transparent.                                           *)
(***************************************************************************)
Transparent == <<0, 0, 0, 0>>

Opaque(rgb) == <<rgb[1], rgb[2], rgb[3], 255>>

\* n / d rounded to the nearest integer (d > 0, n >= 0)
DivRound(n, d) == (2 * n + d) \div (2 * d)

\* CSS colour strings used by the page, as RGB
ColorRGB(s) ==
  CASE s = "#FFFFFF" -> <<255, 255, 255>>
    [] s = "#ffffff" -> <<255, 255, 255>>
    [] s = "#F5F7FA" -> <<245, 247, 250>>
    [] s = "#000000" -> <<0, 0, 0>>
    [] s = "#8B4513" -> <<139, 69, 19>>
    [] s = "#000080" -> <<0, 0, 128>>
    [] s = "#FFDAB9" -> <<255, 218, 185>>
    [] s = "#4F46E5" -> <<79, 70, 229>>
    [] s = "#FFC0CB" -> <<255, 192, 203>>
    [] s = "#FFD700" -> <<255, 215, 0>>
    [] s = "#336699" -> <<51, 102, 153>>

\* Porter-Duff source-over: the source drawn over the destination
SourceOver(s, d) ==
  LET rest == DivRound(d[4] * (255 - s[4]), 255)
      ao == s[4] + rest
  IN IF s[4] = 255 \/ d[4] = 0 THEN s     \* what the formula below gives
     ELSE <<DivRound(s[1] * s[4] + d[1] * rest, ao),
            DivRound(s[2] * s[4] + d[2] * rest, ao),
            DivRound(s[3] * s[4] + d[3] * rest, ao), ao>>

\* destination-out: the destination is erased where the source has alpha
DestinationOut(s, d) ==
  LET ao == DivRound(d[4] * (255 - s[4]), 255)
  IN IF ao = 0 THEN Transparent ELSE <<d[1], d[2], d[3], ao>>

\* destination-in: the destination is kept only where the source has alpha
DestinationIn(s, d) ==
  LET ao == DivRound(d[4] * s[4], 255)
  IN IF ao = 0 THEN Transparent ELSE <<d[1], d[2], d[3], ao>>

\* a transparent source leaves the destination as it is under source-over
\* and destination-out (the first branch only saves the arithmetic)
Composite(gco, s, d) ==
  IF s[4] = 0 /\ gco # "destination-in" THEN d
  ELSE IF gco = "source-over" THEN SourceOver(s, d)
  ELSE IF gco = "destination-out" THEN DestinationOut(s, d)
  ELSE DestinationIn(s, d)

(***************************************************************************)
(* Images and canvases.  An image is [w, h, px] with px its rows of pixels, *)
(* top to bottom.  A canvas is a bitmap with the state of its 2d context    *)
(* (filter: <<>> for none, <<r>> for blur(r px); globalCompositeOperation); *)
(* `log` is history: the stages drawn on it since its bitmap was last       *)
(* reset.                                                                  *)
(***************************************************************************)
Max(a, b) == IF a >= b THEN a ELSE b

Min(a, b) == IF a <= b THEN a ELSE b

\* the h rows of w pixels F(x, y), computed once and stored
Bitmap(w, h, F(_, _)) ==
  [y \in 1 .. h |-> [x \in 1 .. w |-> F(x - 1, y - 1)] \o <<>>] \o <<>>

\* the pixel of an image at (x, y); outside the image there is nothing
ImgAt(img, x, y) ==
  IF x >= 0 /\ x < img.w /\ y >= 0 /\ y < img.h THEN img.px[y + 1][x + 1]
  ELSE Transparent

BlankImage(w, h) == [w |-> w, h |-> h, px |-> Bitmap(w, h, LAMBDA x, y : Transparent)]

\* a canvas of the given size in its default state: transparent bitmap,
\* no filter, source-over
NewCanvas(w, h) ==
  [w |-> w, h |-> h, px |-> Bitmap(w, h, LAMBDA x, y : Transparent),
   filter |-> <<>>, gco |-> "source-over", log |-> <<>>]

\* variant: assigning the size neither resizes nor resets the canvas
SetCanvasSizeKeep(c, w, h) == c

\* canvas.width = w; canvas.height = h: the bitmap is replaced by a
\* transparent one and the context state is reset to its defaults
SetCanvasSize(c, w, h) == NewCanvas(w, h)

\* ctx.clearRect(0, 0, canvas.width, canvas.height)
ClearRect(c) == [c EXCEPT !.px = Bitmap(c.w, c.h, LAMBDA x, y : Transparent)]

\* the pixels of columns x0 .. x1 of rows y0 .. y1 of a canvas replaced by
\* F(x, y), the others left as they are
Repaint(c, x0, x1, y0, y1, F(_, _)) ==
  IF x1 < x0 \/ y1 < y0 THEN c
  ELSE [c EXCEPT !.px =
         SubSeq(c.px, 1, y0)
         \o [j \in 1 .. y1 - y0 + 1 |->
               SubSeq(c.px[y0 + j], 1, x0)
               \o [k \in 1 .. x1 - x0 + 1 |-> F(x0 + k - 1, y0 + j - 1)]
               \o SubSeq(c.px[y0 + j], x1 + 2, c.w)]
         \o SubSeq(c.px, y1 + 2, c.h)]

\* sum of alpha (ch = 4) or of premultiplied channel ch over the cells of
\* the (2r+1) x (2r+1) window around (x, y) that lie in the image, from cell
\* (cx, cy) on; the cells outside the image are transparent and add nothing
RECURSIVE WindowSum(_, _, _, _, _, _, _)
WindowSum(img, x, y, r, ch, cx, cy) ==
  IF cy > y + r \/ cy > img.h - 1 THEN 0
  ELSE IF cx > x + r \/ cx > img.w - 1
  THEN WindowSum(img, x, y, r, ch, Max(x - r, 0), cy + 1)
  ELSE (IF ch = 4 THEN ImgAt(img, cx, cy)[4]
        ELSE ImgAt(img, cx, cy)[ch] * ImgAt(img, cx, cy)[4])
       + WindowSum(img, x, y, r, ch, cx + 1, cy)

WindowTotal(img, x, y, r, ch) ==
  WindowSum(img, x, y, r, ch, Max(x - r, 0), Max(y - r, 0))

\* filter blur(r px): mean of the premultiplied window, transparent outside
\* the image; blur(0px) leaves the image as it is
BlurAt(img, r, x, y) ==
  IF r = 0 THEN ImgAt(img, x, y)
  ELSE LET n == (2 * r + 1) * (2 * r + 1)
           sa == WindowTotal(img, x, y, r, 4)
           ao == DivRound(sa, n)
       IN IF ao = 0 THEN Transparent
          ELSE <<DivRound(WindowTotal(img, x, y, r, 1), sa),
                 DivRound(WindowTotal(img, x, y, r, 2), sa),
                 DivRound(WindowTotal(img, x, y, r, 3), sa), ao>>

Filtered(filter, img, x, y) ==
  IF filter = <<>> THEN ImgAt(img, x, y) ELSE BlurAt(img, filter[1], x, y)

\* ctx.drawImage(img, dx, dy) under the context's filter and composite mode.
\* The source is transparent outside the image grown by the blur radius;
\* there source-over and destination-out leave the canvas as it is, while
\* destination-in erases it
DrawImage(c, img, dx, dy) ==
  LET r == IF c.filter = <<>> THEN 0 ELSE c.filter[1]
      whole == c.gco = "destination-in"
  IN Repaint(c, IF whole THEN 0 ELSE Max(0, dx - r),
                IF whole THEN c.w - 1 ELSE Min(c.w - 1, dx + img.w - 1 + r),
                IF whole THEN 0 ELSE Max(0, dy - r),
                IF whole THEN c.h - 1 ELSE Min(c.h - 1, dy + img.h - 1 + r),
                LAMBDA x, y : Composite(c.gco, Filtered(c.filter, img, x - dx, y - dy),
                                        ImgAt(c, x, y)))

\* ctx.fillStyle = color; ctx.fillRect(x, y, w, h)
FillRect(c, x, y, w, h, rgb) ==
  Repaint(c, Max(0, x), Min(c.w - 1, x + w - 1), Max(0, y), Min(c.h - 1, y + h - 1),
          LAMBDA px, py : Composite(c.gco, Opaque(rgb), ImgAt(c, px, py)))

\* history: the stage just drawn, with the bitmap and context state it left
Logged(c, stage) ==
  [c EXCEPT !.log = Append(@, [stage |-> stage, px |-> c.px, gco |-> c.gco,
                               filter |-> c.filter])]

\* the bitmap of a canvas used as the source of a drawImage
CanvasImage(c) == [w |-> c.w, h |-> c.h, px |-> c.px]

(***************************************************************************)
(* Effect options.  An options bag is a function from option names to      *)
(* values; a missing option reads as "undefined".                          *)
(***************************************************************************)
NoOptions == [k \in {} |-> FALSE]

\* options?.k ?? default
Opt(options, k, default) == IF k \in DOMAIN options THEN options[k] ELSE default

\* { ...a, ...b }
Spread(a, b) ==
  [k \in DOMAIN a \cup DOMAIN b |-> IF k \in DOMAIN b THEN b[k] ELSE a[k]]

(***************************************************************************)
(* The stages of applyBackgroundEffect.                                    *)
(***************************************************************************)
size == 32

\* the two nested loops painting the checkerboard, from square (x, y) on
RECURSIVE Checkerboard(_, _, _)
\* variant: the colour test looks at one square size, not two
CheckerboardOneSize(c, x, y) ==
  IF x >= c.w THEN c
  ELSE IF y >= c.h THEN Checkerboard(c, x + size, 0)
  ELSE Checkerboard(
         FillRect(c, x, y, size, size,
                  ColorRGB(IF (x + y) % size = 0 THEN "#FFFFFF" ELSE "#F5F7FA")),
         x, y + size)

Checkerboard(c, x, y) ==
  IF x >= c.w THEN c
  ELSE IF y >= c.h THEN Checkerboard(c, x + size, 0)
  ELSE Checkerboard(
         FillRect(c, x, y, size, size,
                  ColorRGB(IF (x + y) % (size * 2) = 0 THEN "#FFFFFF" ELSE "#F5F7FA")),
         x, y + size)

\* variant: the stored colour is painted under the original image
BackgroundStageBoth(c, originalImg, fx) ==
  IF ~fx.background.enabled
  THEN Logged(Checkerboard(c, 0, 0), "background")
  ELSE Logged(
         (IF Opt(fx.background.options, "useOriginal", FALSE)
          THEN DrawImage(FillRect(c, 0, 0, c.w, c.h,
                           ColorRGB(Opt(fx.background.options, "color", "#ffffff"))),
                         originalImg, 0, 0)
          ELSE FillRect(c, 0, 0, c.w, c.h,
                        ColorRGB(Opt(fx.background.options, "color", "#ffffff")))),
         "background")

BackgroundStage(c, originalImg, fx) ==
  IF ~fx.background.enabled
  THEN Logged(Checkerboard(c, 0, 0), "background")
  ELSE IF Opt(fx.background.options, "useOriginal", FALSE)
  THEN Logged(DrawImage(c, originalImg, 0, 0), "background")
  ELSE Logged(FillRect(c, 0, 0, c.w, c.h,
                ColorRGB(Opt(fx.background.options, "color", "#ffffff"))),
              "background")

\* variant: the composite mode is left at destination-out
BlurStageKeepsMode(c, foregroundImg, fx, env) ==
  IF ~fx.blur.enabled THEN c
  ELSE IF ~env.bgCtx THEN c
  ELSE LET bg0 == DrawImage(NewCanvas(c.w, c.h), CanvasImage(c), 0, 0)
           c1 == [c EXCEPT !.filter = <<Opt(fx.blur.options, "blur", 10)>>]
           c2 == DrawImage(c1, CanvasImage(bg0), 0, 0)
           c3 == [c2 EXCEPT !.filter = <<>>]
           bg1 == ClearRect(bg0)
           bg2 == DrawImage(bg1, foregroundImg, 0, 0)
           c4 == [c3 EXCEPT !.gco = "destination-out"]
           c5 == DrawImage(c4, CanvasImage(bg2), 0, 0)
       IN Logged(c5, "blur")

\* the blur block: the canvas drawn over itself through the blur filter, then
\* the foreground erased from it
BlurStage(c, foregroundImg, fx, env) ==
  IF ~fx.blur.enabled THEN c
  ELSE IF ~env.bgCtx THEN c
  ELSE LET bg0 == DrawImage(NewCanvas(c.w, c.h), CanvasImage(c), 0, 0)
           c1 == [c EXCEPT !.filter = <<Opt(fx.blur.options, "blur", 10)>>]
           c2 == DrawImage(c1, CanvasImage(bg0), 0, 0)
           c3 == [c2 EXCEPT !.filter = <<>>]
           bg1 == ClearRect(bg0)
           bg2 == DrawImage(bg1, foregroundImg, 0, 0)
           c4 == [c3 EXCEPT !.gco = "destination-out"]
           c5 == DrawImage(c4, CanvasImage(bg2), 0, 0)
           c6 == [c5 EXCEPT !.gco = "source-over"]
       IN Logged(c6, "blur")

\* variant: each channel is averaged after the channels before it were
\* overwritten
GrayInPlace(p) ==
  LET r == DivRound(p[1] + p[2] + p[3], 3)
      g == DivRound(r + p[2] + p[3], 3)
      b == DivRound(r + g + p[3], 3)
  IN <<r, g, b, p[4]>>

\* variant: the mean is truncated
GrayTruncated(p) ==
  LET avg == (p[1] + p[2] + p[3]) \div 3 IN <<avg, avg, avg, p[4]>>

\* data[i] = avg: a Uint8ClampedArray store rounds to the nearest integer
Gray(p) ==
  LET avg == DivRound(p[1] + p[2] + p[3], 3) IN <<avg, avg, avg, p[4]>>

BwStage(c, fx) ==
  IF ~fx.bw.enabled THEN c
  ELSE Logged([c EXCEPT !.px = Bitmap(c.w, c.h, LAMBDA x, y : Gray(ImgAt(c, x, y)))],
              "bw")

\* variant: the foreground is desaturated before it is drawn
ForegroundDrawGray(c, foregroundImg) ==
  Logged(DrawImage(c, [foregroundImg EXCEPT !.px =
                         Bitmap(foregroundImg.w, foregroundImg.h,
                                LAMBDA x, y : Gray(ImgAt(foregroundImg, x, y)))],
                   0, 0),
         "foreground")

\* variant: the foreground is drawn one pixel to the right
ForegroundDrawShifted(c, foregroundImg) ==
  Logged(DrawImage(c, foregroundImg, 1, 0), "foreground")

\* ctx.drawImage(foregroundImg, 0, 0)
ForegroundDraw(c, foregroundImg) ==
  Logged(DrawImage(c, foregroundImg, 0, 0), "foreground")

\* variant: the thickness is not clamped to at least one pixel
ThicknessUnclamped(borderSize) == borderSize \div 8

\* Math.max(1, Math.floor(borderSize / 8))
Thickness(borderSize) == Max(1, borderSize \div 8)

\* variant: every offset of the square is kept
OffsetsSquare(t) ==
  [k \in 1 .. (2 * t + 1) * (2 * t + 1) |->
     <<((k - 1) \div (2 * t + 1)) - t, ((k - 1) % (2 * t + 1)) - t>>]

\* the offsets pushed by the two nested loops, in the order pushed
Offsets(t) ==
  SelectSeq([k \in 1 .. (2 * t + 1) * (2 * t + 1) |->
               <<((k - 1) \div (2 * t + 1)) - t, ((k - 1) % (2 * t + 1)) - t>>],
            LAMBDA o : o[1] * o[1] + o[2] * o[2] <= t * t)

\* offsets.forEach over offsets[lo .. hi]: the foreground stamped on the mask
\* at each of them in turn (the range is halved to keep the evaluation shallow)
RECURSIVE StampMask(_, _, _, _, _, _)
StampMask(mask, foregroundImg, offsets, t, lo, hi) ==
  IF lo > hi THEN mask
  ELSE IF lo = hi
  THEN DrawImage(mask, foregroundImg, offsets[lo][1] + t, offsets[lo][2] + t)
  ELSE LET mid == (lo + hi) \div 2
           half == StampMask(mask, foregroundImg, offsets, t, lo, mid)
       IN \* the test only makes the first half be drawn before the second
          IF Len(half.px) = mask.h
          THEN StampMask(half, foregroundImg, offsets, t, mid + 1, hi)
          ELSE half

\* the mask canvas of a border of the given thickness around the foreground,
\* for a main canvas c: padded like the temporary canvas, the foreground
\* stamped at every offset
BorderMask(c, foregroundImg, thickness) ==
  LET offsets == Offsets(thickness)
  IN StampMask(NewCanvas(c.w + thickness * 2, c.h + thickness * 2), foregroundImg,
               offsets, thickness, 1, Len(offsets))

\* the temporary canvas: cleared, filled with the border colour and cut to
\* the shape of the mask
BorderLayer(c, mask, borderColor, thickness) ==
  LET tw == c.w + thickness * 2
      th == c.h + thickness * 2
      t1 == ClearRect(NewCanvas(tw, th))
      t2 == FillRect(t1, 0, 0, tw, th, ColorRGB(borderColor))
      t3 == [t2 EXCEPT !.gco = "destination-in"]
  IN DrawImage(t3, CanvasImage(mask), 0, 0)

\* the border block; ok is FALSE when it returned early
BorderStage(c, foregroundImg, fx, env) ==
  IF ~fx.border.enabled THEN [ok |-> TRUE, canvas |-> c]
  ELSE IF ~env.tempCtx \/ ~env.maskCtx THEN [ok |-> FALSE, canvas |-> c]
  ELSE LET borderSize == Opt(fx.border.options, "borderSize", 40)
           borderColor == Opt(fx.border.options, "borderColor", "#ffffff")
           thickness == Thickness(borderSize)
           mask == BorderMask(c, foregroundImg, thickness)
           t4 == BorderLayer(c, mask, borderColor, thickness)
           c1 == Logged(DrawImage(c, CanvasImage(t4), 0 - thickness, 0 - thickness),
                        "border")
       IN [ok |-> TRUE, canvas |-> Logged(DrawImage(c1, foregroundImg, 0, 0),
                                          "foreground")]

\* variant: grayscale applied after the foreground is drawn
DrawStagesBwLast(c, originalImg, foregroundImg, fx, env) ==
  LET c1 == ClearRect(SetCanvasSize(c, originalImg.w, originalImg.h))
      c2 == BackgroundStage(c1, originalImg, fx)
      c3 == BlurStage(c2, foregroundImg, fx, env)
      c4 == ForegroundDraw(c3, foregroundImg)
      c5 == BwStage(c4, fx)
  IN BorderStage(c5, foregroundImg, fx, env)

\* applyBackgroundEffect from the resumption after the image loads up to the
\* toBlob call: one synchronous run on the shared canvas
DrawStages(c, originalImg, foregroundImg, fx, env) ==
  LET c1 == ClearRect(SetCanvasSize(c, originalImg.w, originalImg.h))
      c2 == BackgroundStage(c1, originalImg, fx)
      c3 == BlurStage(c2, foregroundImg, fx, env)
      c4 == BwStage(c3, fx)
      c5 == ForegroundDraw(c4, foregroundImg)
  IN BorderStage(c5, foregroundImg, fx, env)


(***************************************************************************)
(* Files the user can hand to the page.  A file carries its decoded image  *)
(* and, as a latent property of the photo, the foreground the removal      *)
(* library cuts out of it.                                                 *)
(***************************************************************************)
Null == <<>>

PhotoPx(x, y) ==
  <<(x * 37 + y * 11 + 5) % 256, (x * 5 + y * 53 + 100) % 256,
    (x * 91 + y * 17 + 200) % 256, 255>>

\* the subject covers columns lo..hi, with a soft edge one column wide
SubjectAlpha(x, lo, hi) ==
  IF x \in lo .. hi THEN 255 ELSE IF x = lo - 1 \/ x = hi + 1 THEN 128 ELSE 0

\* seeThrough: a PNG whose every third column is transparent
MakeFile(type, fsize, w, h, lo, hi, seeThrough) ==
  [type |-> type, fsize |-> fsize,
   img |-> [w |-> w, h |-> h,
            px |-> Bitmap(w, h, LAMBDA x, y :
                     IF seeThrough /\ x % 3 = 1 THEN Transparent ELSE PhotoPx(x, y))],
   fg |-> [w |-> w, h |-> h,
           px |-> Bitmap(w, h, LAMBDA x, y :
                    IF SubjectAlpha(x, lo, hi) = 0 \/ (seeThrough /\ x % 3 = 1)
                    THEN Transparent
                    ELSE <<PhotoPx(x, y)[1], PhotoPx(x, y)[2], PhotoPx(x, y)[3],
                           SubjectAlpha(x, lo, hi)>>)]]

ImagePng == <<"i", "m", "a", "g", "e", "/", "p", "n", "g">>
TextPlain == <<"t", "e", "x", "t", "/", "p", "l", "a", "i", "n">>

\* the 5 MB ceiling of the upload handlers
MaxFileSize == 5 * 1024 * 1024

SmallW == 3          \* width of the photos of the page-level specification

AppFiles ==
  { MakeFile(ImagePng, 1000, SmallW, 1, 0, 0, FALSE),
    MakeFile(ImagePng, MaxFileSize, SmallW - 1, 1, 0, 0, TRUE),
    MakeFile(TextPlain, 1000, 1, 1, 0, 0, FALSE),
    MakeFile(ImagePng, MaxFileSize + 1, 1, 1, 0, 0, FALSE) }

\* file.type.startsWith(prefix)
StartsWith(str, prefix) ==
  /\ Len(str) >= Len(prefix)
  /\ \A i \in 1 .. Len(prefix) : str[i] = prefix[i]

(***************************************************************************)
(* State.                                                                  *)
(***************************************************************************)
VARIABLES
  originalImage,        \* React state: object URL of the upload, or Null
  processedImage,       \* React state: object URL shown as the result
  processedImageNoBg,   \* React state: object URL of the foreground
  isProcessing, processingProgress, processingStep,
  effects,              \* React state: the four Effect records
  backgroundColor, blurIntensity, borderSize, borderColor,
  borderChangeTimeout,  \* the pending debounce timer, or Null
  colorChangeTimeout,   \* the pending timer of the background colour input, or Null
  backgroundOption,     \* React state of the earliest snapshot: the background chosen
  urls,                 \* blobs behind the object URLs created so far
  variant,              \* which snapshot of the worker runs
  requests,             \* worker side: one record per message posted to it
  toMain,               \* messages from the worker not yet handled
  renders,              \* applyBackgroundEffect calls, in call order
  canvas,               \* the shared canvas behind canvasRef
  alerts,               \* alert() calls: the messages shown to the user
  consoleErrors,        \* console.error calls
  faults                \* how many calls into the platform have failed so far

vars == <<originalImage, processedImage, processedImageNoBg, isProcessing,
          processingProgress, processingStep, effects, backgroundColor,
          blurIntensity, borderSize, borderColor, borderChangeTimeout, colorChangeTimeout,
              backgroundOption, urls,
          variant, requests, toMain, renders, canvas, alerts, consoleErrors,
          faults>>

pageVars == <<originalImage, processedImage, processedImageNoBg, isProcessing,
              processingProgress, processingStep, effects, backgroundColor,
              blurIntensity, borderSize, borderColor, borderChangeTimeout, colorChangeTimeout,
              backgroundOption,
              renders, canvas, alerts, consoleErrors, faults>>

InitialEffects ==
  [background |-> [type |-> "background", enabled |-> FALSE,
                   options |-> [color |-> "#ffffff"]],
   border |-> [type |-> "border", enabled |-> FALSE,
               options |-> [borderColor |-> "#FFD700", borderSize |-> 40]],
   blur |-> [type |-> "blur", enabled |-> FALSE, options |-> [blur |-> 10]],
   bw |-> [type |-> "bw", enabled |-> FALSE, options |-> NoOptions]]

\* <canvas ref={canvasRef}/> has no size attributes: until the first render
\* it has the size the browser gives it (300 x 150 in HTML, scaled down here)
DefaultCanvasWidth == 2
DefaultCanvasHeight == 2

InitPage ==
  /\ originalImage = Null
  /\ processedImage = Null
  /\ processedImageNoBg = Null
  /\ isProcessing = FALSE
  /\ processingProgress = 0
  /\ processingStep = ""
  /\ effects = InitialEffects
  /\ backgroundColor = "#ffffff"
  /\ blurIntensity = 10
  /\ borderSize = 40
  /\ borderColor = "#FFD700"
  /\ borderChangeTimeout = Null
  /\ colorChangeTimeout = Null
  /\ backgroundOption = "none"
  /\ urls = <<>>
  /\ requests = <<>>
  /\ toMain = <<>>
  /\ renders = <<>>
  /\ canvas = NewCanvas(DefaultCanvasWidth, DefaultCanvasHeight)
  /\ alerts = <<>>
  /\ consoleErrors = <<>>
  /\ faults = 0

Init == InitPage /\ variant = "worker.ts"


(***************************************************************************)
(* The worker.  A request is the async onmessage invocation for one        *)
(* message: pc is where it is suspended, out the messages it has posted    *)
(* (history), cbs the number of progress callbacks the library has made.   *)
(***************************************************************************)
NoBlob == BlankImage(0, 0)

\* the messages the worker posts; a field a message does not carry holds a
\* filler (0, FALSE, NoBlob, "")
ProgressMsg(n) ==
  [type |-> "progress", progress |-> n, success |-> FALSE, blob |-> NoBlob,
   error |-> ""]

CompleteMsg(success, blob, error) ==
  [type |-> "complete", progress |-> 0, success |-> success, blob |-> blob,
   error |-> error]

\* what a failing step throws: an Error with a message, or something else
Thrown == { [isError |-> TRUE, message |-> "Failed to fetch"],
            [isError |-> FALSE, message |-> ""] }

\* the error field built by the catch block
ErrorText(e) ==
  IF variant = "worker.ts"
  THEN (IF e.message # "" THEN e.message ELSE "Unknown error")
  ELSE (IF e.isError THEN e.message ELSE "Unknown error occurred")

\* request i posts msgs, in order, and moves to pc
PostAndGo(i, msgs, pc) ==
  /\ toMain' = toMain \o [k \in 1 .. Len(msgs) |-> [req |-> i, msg |-> msgs[k]]]
  /\ requests' = [requests EXCEPT ![i].out = @ \o msgs, ![i].pc = pc]

\* the first postMessage of onmessage, before the fetch
InitialProgress ==
  CASE variant = "worker.ts" -> 10
    [] variant = "part_005" -> 5
    [] variant = "part_006" -> 0

\* the postMessage after the image is loaded
LoadedProgress ==
  CASE variant = "worker.ts" -> 30
    [] variant = "part_005" -> 15
    [] variant = "part_006" -> 20

\* the message is delivered: onmessage runs up to `await fetch(imageUrl)`
WorkerReceive(i) ==
  /\ requests[i].pc = "queued"
  /\ \A j \in 1 .. i - 1 : requests[j].pc # "queued"
  /\ PostAndGo(i, <<ProgressMsg(InitialProgress)>>, "fetch")
  /\ UNCHANGED <<pageVars, urls, variant>>

\* fetch and response.blob() resolve: progress is posted and removeBackground
\* is called
WorkerFetched(i) ==
  /\ requests[i].pc = "fetch"
  /\ PostAndGo(i, <<ProgressMsg(LoadedProgress)>>, "remove")
  /\ UNCHANGED <<pageVars, urls, variant>>

\* fetch, response.blob() or removeBackground throws: the catch block
WorkerThrows(i) ==
  /\ requests[i].pc \in {"fetch", "remove"}
  /\ faults < MaxFaults
  /\ faults' = faults + 1
  /\ \E e \in Thrown :
       PostAndGo(i, <<CompleteMsg(FALSE, NoBlob, ErrorText(e))>>, "done")
  /\ UNCHANGED <<originalImage, processedImage, processedImageNoBg, isProcessing,
                 processingProgress, processingStep, effects, backgroundColor,
                 blurIntensity, borderSize, borderColor, borderChangeTimeout, colorChangeTimeout,
              backgroundOption,
                 renders, canvas, alerts, consoleErrors, urls, variant>>

\* Math.round(base + (current / total) * 80), total > 0
ScaledProgress(base, current, total) ==
  DivRound(base * total + current * 80, total)

\* the values Math.round(baseProgress + jitter) can take for a jitter of
\* Math.random() * 2 - 1, that is in [-1, 1)
JitteredRound(current, total) ==
  LET n == 15 * total + current * 80
  IN ((2 * n - total) \div (2 * total)) ..
     ((2 * n + 3 * total + 2 * total - 1) \div (2 * total) - 1)

\* the progress callbacks made so far for requests 1 .. n
RECURSIVE Callbacks(_)
Callbacks(n) == IF n = 0 THEN 0 ELSE requests[n].cbs + Callbacks(n - 1)

\* the progress callback handed to removeBackground, called by the library
\* with (key, current, total) while the removal runs
ProgressCallback(i) ==
  /\ requests[i].pc = "remove"
  /\ variant # "worker.ts"
  /\ Callbacks(Len(requests)) < MaxCallbacks
  /\ \E total \in 1 .. MaxTotal : \E current \in 0 .. total :
       \E progress \in (IF variant = "part_006"
                        THEN {ScaledProgress(20, current, total)}
                        ELSE {Min(95, Max(15, r)) : r \in JitteredRound(current, total)}) :
         /\ toMain' = Append(toMain, [req |-> i, msg |-> ProgressMsg(progress)])
         /\ requests' = [requests EXCEPT ![i].out = Append(@, ProgressMsg(progress)),
                                         ![i].cbs = @ + 1]
  /\ UNCHANGED <<pageVars, urls, variant>>

\* variant: the last progress message is posted after the complete message
WorkerRemovedProgressLast(i) ==
  /\ requests[i].pc = "remove"
  /\ PostAndGo(i, <<CompleteMsg(TRUE, urls[requests[i].imageUrl[1]].fg, ""),
                    ProgressMsg(100)>>, "done")
  /\ UNCHANGED <<pageVars, urls, variant>>

\* removeBackground resolves with the foreground blob
WorkerRemoved(i) ==
  /\ requests[i].pc = "remove"
  /\ PostAndGo(i,
       (IF variant = "worker.ts" THEN <<ProgressMsg(100)>> ELSE <<>>)
         \o <<CompleteMsg(TRUE, urls[requests[i].imageUrl[1]].fg, "")>>,
       "done")
  /\ UNCHANGED <<pageVars, urls, variant>>


(***************************************************************************)
(* The page: worker messages.                                              *)
(***************************************************************************)
StepLabel(progress) ==
  IF progress < 15 THEN "Loading image..."
  ELSE IF progress < 30 THEN "Preparing image..."
  ELSE IF progress < 50 THEN "Analyzing image..."
  ELSE IF progress < 80 THEN "Removing background..."
  ELSE "Finalizing..."

\* URL.createObjectURL(blob): the URL of the next entry of urls
NextUrl == <<Len(urls) + 1>>

\* workerRef.current.onmessage, on the oldest message not yet handled
OnMessage ==
  /\ toMain # <<>>
  /\ LET m == Head(toMain).msg IN
       /\ toMain' = Tail(toMain)
       /\ IF m.type = "progress"
          THEN /\ processingProgress' = m.progress
               /\ processingStep' = StepLabel(m.progress)
               /\ UNCHANGED <<processedImageNoBg, processedImage, urls,
                              consoleErrors, isProcessing>>
          ELSE /\ IF m.success /\ m.blob # NoBlob
                  THEN /\ urls' = Append(urls,
                                  [kind |-> "foreground", img |-> m.blob,
                                   \* history: the URL the worker was given
                                   of |-> requests[Head(toMain).req].imageUrl])
                       /\ processedImageNoBg' = NextUrl
                       /\ processedImage' = NextUrl
                       /\ UNCHANGED consoleErrors
                  ELSE /\ consoleErrors' = Append(consoleErrors, m.error)
                       /\ UNCHANGED <<processedImageNoBg, processedImage, urls>>
               /\ isProcessing' = FALSE
               /\ processingProgress' = 0
               /\ processingStep' = ""
  /\ UNCHANGED <<originalImage, effects, backgroundColor, blurIntensity, borderSize,
                 borderColor, borderChangeTimeout, colorChangeTimeout,
              backgroundOption, variant, requests, renders,
                 canvas, alerts, faults>>

(***************************************************************************)
(* The page: uploads.  The drop zone and the file input are rendered only  *)
(* while processedImage is null.                                           *)
(***************************************************************************)
UploadShown == processedImage = Null

\* the files handed to the page and the renders started so far
Gestures == Len(requests) + Len(alerts) + Len(renders)

\* the body shared by handleDrop and handleImageUpload, from the type check on
IngestFile(file) ==
  IF ~StartsWith(file.type, <<"i", "m", "a", "g", "e", "/">>)
  THEN /\ alerts' = Append(alerts, "Please upload an image file")
       /\ UNCHANGED <<originalImage, processedImage, processedImageNoBg,
                      isProcessing, urls, requests>>
  ELSE IF file.fsize > MaxFileSize
  THEN /\ alerts' = Append(alerts, "File size must be less than 5MB")
       /\ UNCHANGED <<originalImage, processedImage, processedImageNoBg,
                      isProcessing, urls, requests>>
  ELSE /\ urls' = Append(urls, [kind |-> "file", type |-> file.type,
                              fsize |-> file.fsize, img |-> file.img,
                              fg |-> file.fg])
       /\ originalImage' = NextUrl
       /\ processedImage' = Null
       /\ processedImageNoBg' = Null
       /\ isProcessing' = TRUE
       /\ requests' = Append(requests, [imageUrl |-> NextUrl, pc |-> "queued",
                                        out |-> <<>>, cbs |-> 0])
       /\ UNCHANGED alerts

UploadFrame ==
  UNCHANGED <<processingProgress, processingStep, effects, backgroundColor,
              blurIntensity, borderSize, borderColor, borderChangeTimeout, colorChangeTimeout,
              backgroundOption,
              variant, toMain, renders, canvas, consoleErrors, faults>>

HandleDrop(file) ==
  /\ UploadShown
  /\ Len(requests) + Len(alerts) < MaxUploads
  /\ Gestures < MaxGestures
  /\ IngestFile(file)
  /\ UploadFrame

HandleImageUpload(file) ==
  /\ UploadShown
  /\ Len(requests) + Len(alerts) < MaxUploads
  /\ Gestures < MaxGestures
  /\ IngestFile(file)
  /\ UploadFrame


(***************************************************************************)
(* The page: effect changes and renders.  A render is one call of          *)
(* applyBackgroundEffect: pc is where it is suspended ("loading": awaiting *)
(* the two images; "encoding": awaiting toBlob; "done": its URL was        *)
(* committed by handleEffectChange; "returned": it returned undefined;     *)
(* "pending": toBlob delivered no blob and its promise never settles).     *)
(***************************************************************************)
\* the new Effects object built by handleEffectChange from a base object
EffectUpdate(fxs, effectType, enabled, options) ==
  [fxs EXCEPT ![effectType] =
     [@ EXCEPT !.enabled = enabled,
               !.options = Spread(Spread(@, options),
                             IF effectType = "border" /\ enabled
                                /\ "borderColor" \notin DOMAIN options
                             THEN [borderColor |-> "#FFD700"] ELSE NoOptions)]]

\* what a handler created in the current React render closes over
Closure ==
  [originalImage |-> originalImage, processedImageNoBg |-> processedImageNoBg,
   effects |-> effects]

\* canvas.getContext('2d') returns the context it returned before
HasContext == \E r \in 1 .. Len(renders) : renders[r].hadCtx

\* handleEffectChange as created in the React render of closure cl, up to its
\* await: setEffects, and applyBackgroundEffect up to its own first await
HandleEffectChange(cl, effectType, enabled, options) ==
  IF cl.originalImage = Null \/ cl.processedImageNoBg = Null
  THEN UNCHANGED <<effects, renders, faults>>
  ELSE /\ Len(renders) < MaxRenders
       /\ Gestures < MaxGestures
       /\ effects' = EffectUpdate(effects, effectType, enabled, options)
       /\ \E ctx \in (IF HasContext \/ faults >= MaxFaults THEN {TRUE} ELSE BOOLEAN) :
            /\ faults' = IF ctx THEN faults ELSE faults + 1
            /\ renders' = Append(renders,
              [originalUrl |-> cl.originalImage,
               foregroundUrl |-> cl.processedImageNoBg,
               currentEffects |-> EffectUpdate(cl.effects, effectType, enabled, options),
               \* history: the arguments of this handleEffectChange call
               update |-> [effectType |-> effectType, enabled |-> enabled,
                           options |-> options],
               hadCtx |-> ctx,
               pc |-> IF ctx THEN "loading" ELSE "returned",
               env |-> [bgCtx |-> TRUE, tempCtx |-> TRUE, maskCtx |-> TRUE],
               log |-> <<>>, snapshot |-> NoBlob, result |-> Null])

\* the editor sidebar is rendered only while processedImage is set
ControlsShown == processedImage # Null

BackgroundPresets == {"#000000"}
CustomColors == {"#336699"}
BorderPresets == {"#4F46E5"}
BlurValues == {2}
BorderSizes == {20}

\* max of the border size slider
MaxBorderSize == 200

EffectFrame ==
  UNCHANGED <<colorChangeTimeout, backgroundOption,
              originalImage, processedImage, processedImageNoBg, isProcessing,
              processingProgress, processingStep, urls, variant, requests, toMain,
              canvas, alerts, consoleErrors>>

\* onClick of a background swatch
SelectBackground(kind, color) ==
  /\ ControlsShown
  /\ CASE kind = "picker" ->
            /\ color \in CustomColors
            /\ backgroundColor' = color
            /\ HandleEffectChange(Closure, "background", TRUE,
                                  [color |-> color, useOriginal |-> FALSE])
       [] kind = "color" ->
            /\ color \in BackgroundPresets
            /\ backgroundColor' = color
            /\ HandleEffectChange(Closure, "background", TRUE,
                                  [color |-> color, useOriginal |-> FALSE])
       [] kind = "transparent" ->
            /\ color = ""
            /\ UNCHANGED backgroundColor
            /\ HandleEffectChange(Closure, "background", FALSE, NoOptions)
       [] kind = "original" ->
            /\ color = ""
            /\ UNCHANGED backgroundColor
            /\ HandleEffectChange(Closure, "background", TRUE, [useOriginal |-> TRUE])
  /\ UNCHANGED <<blurIntensity, borderSize, borderColor, borderChangeTimeout>>
  /\ EffectFrame

\* onClick of the Outline, Blur and Black & White headers
ToggleEffect(effectType) ==
  /\ ControlsShown
  /\ HandleEffectChange(Closure, effectType, ~effects[effectType].enabled, NoOptions)
  /\ UNCHANGED <<backgroundColor, blurIntensity, borderSize, borderColor,
                 borderChangeTimeout>>
  /\ EffectFrame

\* onClick of a border colour swatch, and the change event of its picker
SelectBorderColor(color) ==
  /\ ControlsShown
  /\ effects.border.enabled
  /\ borderColor' = color
  /\ HandleEffectChange(Closure, "border", TRUE, [borderColor |-> color])
  /\ UNCHANGED <<backgroundColor, blurIntensity, borderSize, borderChangeTimeout>>
  /\ EffectFrame

HandleBlurChange(newBlur) ==
  /\ ControlsShown
  /\ effects.blur.enabled
  /\ blurIntensity' = newBlur
  /\ HandleEffectChange(Closure, "blur", TRUE, [blur |-> newBlur])
  /\ UNCHANGED <<backgroundColor, borderSize, borderColor, borderChangeTimeout>>
  /\ EffectFrame

\* the timer replaces the pending one; its callback closes over the
\* handleEffectChange of the current React render
HandleBorderSizeChange(newSize) ==
  /\ ControlsShown
  /\ effects.border.enabled
  /\ Len(renders) < MaxRenders
  /\ borderSize' = newSize
  /\ borderChangeTimeout' = <<[newSize |-> newSize, closure |-> Closure]>>
  /\ UNCHANGED <<effects, renders, backgroundColor, blurIntensity, borderColor,
                 faults>>
  /\ EffectFrame

\* the 150 ms timer fires
BorderTimeoutFires ==
  /\ borderChangeTimeout # Null
  /\ HandleEffectChange(borderChangeTimeout[1].closure, "border", TRUE,
                        [borderSize |-> borderChangeTimeout[1].newSize])
  /\ borderChangeTimeout' = Null
  /\ UNCHANGED <<backgroundColor, blurIntensity, borderSize, borderColor>>
  /\ EffectFrame


RenderFrame ==
  UNCHANGED <<originalImage, processedImageNoBg, isProcessing, processingProgress,
              processingStep, effects, backgroundColor, blurIntensity, borderSize,
              borderColor, borderChangeTimeout, colorChangeTimeout,
              backgroundOption, variant, requests, toMain, alerts,
              consoleErrors>>

\* the getContext('2d') calls of the scratch canvases that return null
Failures(env) == Cardinality({k \in DOMAIN env : ~env[k]})

\* whether each getContext('2d') of the scratch canvases yields a context; a
\* call the render does not make is recorded as TRUE
ContextOutcomes(fx) ==
  { env \in [bgCtx : BOOLEAN, tempCtx : BOOLEAN, maskCtx : BOOLEAN] :
      /\ ~fx.blur.enabled => env.bgCtx
      /\ ~fx.border.enabled => env.tempCtx
      /\ (~fx.border.enabled \/ ~env.tempCtx) => env.maskCtx
      /\ faults + Failures(env) <= MaxFaults }

\* variant: the encoder is handed what the shared canvas held before this
\* call drew
ToBlobStale(c) == CanvasImage(canvas)

\* canvas.toBlob(callback, 'image/png'): the encoder works on a copy of the
\* bitmap as it is when toBlob is called
ToBlob(c) == CanvasImage(c)

\* both images are loaded: applyBackgroundEffect runs from `canvas.width =`
\* to the toBlob call, which copies the bitmap for the encoder
RenderImagesLoaded(r) ==
  /\ renders[r].pc = "loading"
  /\ \E env \in ContextOutcomes(renders[r].currentEffects) :
       \E drawn \in {DrawStages(canvas, urls[renders[r].originalUrl[1]].img,
                                urls[renders[r].foregroundUrl[1]].img,
                                renders[r].currentEffects, env)} :
          /\ canvas' = drawn.canvas
          /\ faults' = faults + Failures(env)
          /\ renders' = [renders EXCEPT
               ![r].env = env,
               ![r].log = drawn.canvas.log,
               ![r].pc = IF drawn.ok THEN "encoding" ELSE "returned",
               ![r].snapshot = IF drawn.ok THEN ToBlob(drawn.canvas) ELSE NoBlob]
  /\ UNCHANGED <<processedImage, urls>>
  /\ RenderFrame

\* toBlob delivers the PNG: applyBackgroundEffect returns its object URL and
\* handleEffectChange commits it
RenderBlobReady(r) ==
  /\ renders[r].pc = "encoding"
  /\ urls' = Append(urls, [kind |-> "render", img |-> renders[r].snapshot])
  /\ processedImage' = NextUrl
  /\ renders' = [renders EXCEPT ![r].pc = "done", ![r].result = NextUrl]
  /\ UNCHANGED <<canvas, faults>>
  /\ RenderFrame

\* toBlob delivers null: resolve is never called
RenderBlobNull(r) ==
  /\ renders[r].pc = "encoding"
  /\ faults < MaxFaults
  /\ faults' = faults + 1
  /\ renders' = [renders EXCEPT ![r].pc = "pending"]
  /\ UNCHANGED <<processedImage, urls, canvas>>
  /\ RenderFrame

(***************************************************************************)
(* Specifications.                                                         *)
(***************************************************************************)
WorkerNext ==
  \E i \in 1 .. Len(requests) :
    \/ WorkerReceive(i)
    \/ WorkerFetched(i)
    \/ WorkerThrows(i)
    \/ ProgressCallback(i)
    \/ WorkerRemoved(i)

EffectNext ==
  \/ \E kind \in {"picker", "color"} : \E color \in CustomColors \cup BackgroundPresets :
       SelectBackground(kind, color)
  \/ \E kind \in {"transparent", "original"} : SelectBackground(kind, "")
  \/ \E effectType \in {"border", "blur", "bw"} : ToggleEffect(effectType)
  \/ \E color \in BorderPresets : SelectBorderColor(color)
  \/ \E newBlur \in BlurValues : HandleBlurChange(newBlur)
  \/ \E newSize \in BorderSizes : HandleBorderSizeChange(newSize)
  \/ BorderTimeoutFires

RenderNext ==
  \E r \in 1 .. Len(renders) :
    \/ RenderImagesLoaded(r)
    \/ RenderBlobReady(r)
    \/ RenderBlobNull(r)

Next ==
  \/ \E file \in AppFiles : HandleDrop(file) \/ HandleImageUpload(file)
  \/ WorkerNext
  \/ OnMessage
  \/ EffectNext
  \/ RenderNext

\* the page with the worker of src/app/worker.ts
Spec == Init /\ [][Next]_vars

(***************************************************************************)
(* The worker protocol: the page only posts requests and takes the         *)
(* messages; the worker is any of its three snapshots.                     *)
(***************************************************************************)
Variants == {"worker.ts", "part_005", "part_006"}

InitWorker == InitPage /\ variant \in Variants

WorkerFiles ==
  { MakeFile(ImagePng, 1000, 1, 1, 0, 0, FALSE),
    MakeFile(TextPlain, 1000, 1, 1, 0, 0, FALSE) }

NextWorker ==
  \/ \E file \in WorkerFiles : HandleDrop(file) \/ HandleImageUpload(file)
  \/ WorkerNext
  \/ OnMessage

SpecWorker == InitWorker /\ [][NextWorker]_vars

(***************************************************************************)
(* The editor on larger photos: the state the page is in once a photo has  *)
(* been processed successfully, and from there the effect controls and the *)
(* renders.                                                                *)
(***************************************************************************)
WideW == 65          \* width of the wide photo: three checkerboard squares

\* the last photo is all subject: its foreground is opaque at every pixel
RenderFiles ==
  { MakeFile(ImagePng, 1000, WideW, 1, 33, 34, FALSE),
    MakeFile(ImagePng, 1000, SmallW + 1, 2, 1, 1, TRUE),
    MakeFile(ImagePng, 1000, SmallW - 1, 1, 0, SmallW - 2, FALSE) }

\* the page after the upload of file and the successful complete message
Processed(file) ==
  /\ originalImage = <<1>>
  /\ processedImage = <<2>>
  /\ processedImageNoBg = <<2>>
  /\ isProcessing = FALSE
  /\ processingProgress = 0
  /\ processingStep = ""
  /\ effects = InitialEffects
  /\ backgroundColor = "#ffffff"
  /\ blurIntensity = 10
  /\ borderSize = 40
  /\ borderColor = "#FFD700"
  /\ borderChangeTimeout = Null
  /\ colorChangeTimeout = Null
  /\ backgroundOption = "none"
  /\ urls = <<[kind |-> "file", type |-> file.type, fsize |-> file.fsize,
               img |-> file.img, fg |-> file.fg],
              [kind |-> "foreground", img |-> file.fg, of |-> <<1>>]>>
  /\ requests = <<[imageUrl |-> <<1>>, pc |-> "done", cbs |-> 0,
                   out |-> <<ProgressMsg(10), ProgressMsg(30), ProgressMsg(100),
                             CompleteMsg(TRUE, file.fg, "")>>]>>
  /\ toMain = <<>>
  /\ renders = <<>>
  /\ canvas = NewCanvas(DefaultCanvasWidth, DefaultCanvasHeight)
  /\ alerts = <<>>
  /\ consoleErrors = <<>>
  /\ faults = 0

InitRender == variant = "worker.ts" /\ \E file \in RenderFiles : Processed(file)

NextRender == EffectNext \/ RenderNext

SpecRender == InitRender /\ [][NextRender]_vars

(***************************************************************************)
(* The render function on its own: applyBackgroundEffect called on a       *)
(* processed photo with any Effects value its parameter type admits        *)
(* (borderSize is a number: the type does not confine it to the range of   *)
(* the slider).                                                            *)
(***************************************************************************)
\* a photo whose subject is the pixels of solid (opaque) and of soft (half
\* transparent)
MakeSpotFile(w, h, solid, soft) ==
  [type |-> ImagePng, fsize |-> 1000,
   img |-> [w |-> w, h |-> h, px |-> Bitmap(w, h, LAMBDA x, y : PhotoPx(x, y))],
   fg |-> [w |-> w, h |-> h,
           px |-> Bitmap(w, h, LAMBDA x, y :
                    IF <<x, y>> \in solid THEN PhotoPx(x, y)
                    ELSE IF <<x, y>> \in soft
                    THEN <<PhotoPx(x, y)[1], PhotoPx(x, y)[2], PhotoPx(x, y)[3], 128>>
                    ELSE Transparent)]]

BorderFiles ==
  { MakeSpotFile(6, 4, {<<0, 0>>}, {}),
    MakeSpotFile(5, 3, {<<2, 1>>}, {<<3, 1>>}) }

BorderSizeInputs == {0 - 8, 0, 20, 40}

\* the Effects values handed to the function: border enabled with each size,
\* on the checkerboard and on a solid colour
BorderEffects ==
  { [InitialEffects EXCEPT
       !.border.enabled = TRUE, !.border.options.borderSize = s,
       !.background.enabled = solidBg, !.background.options.color = "#000000"] :
      s \in BorderSizeInputs, solidBg \in BOOLEAN }

\* a call of applyBackgroundEffect up to its first await: the main context is
\* there and the call waits for its two images
ApplyBackgroundEffect(originalUrl, foregroundUrl, currentEffects) ==
  /\ Len(renders) < MaxRenders
  /\ renders' = Append(renders,
       [originalUrl |-> originalUrl, foregroundUrl |-> foregroundUrl,
        currentEffects |-> currentEffects, hadCtx |-> TRUE, pc |-> "loading",
        env |-> [bgCtx |-> TRUE, tempCtx |-> TRUE, maskCtx |-> TRUE],
        log |-> <<>>, snapshot |-> NoBlob, result |-> Null])
  /\ UNCHANGED <<effects, faults, backgroundColor, blurIntensity, borderSize,
                 borderColor, borderChangeTimeout, colorChangeTimeout,
              backgroundOption>>
  /\ EffectFrame

InitBorder == variant = "worker.ts" /\ \E file \in BorderFiles : Processed(file)

NextBorder ==
  \/ \E fx \in BorderEffects : ApplyBackgroundEffect(<<1>>, <<2>>, fx)
  \/ RenderNext

SpecBorder == InitBorder /\ [][NextBorder]_vars

(***************************************************************************)
(* The grayscale transform on its own: a pixel buffer run through the      *)
(* black & white block again and again.                                    *)
(***************************************************************************)
MaxPasses == 2       \* times the transform is applied to one buffer

\* channel values and pixels of the buffers
GrayChannels == {0, 1, 2, 128, 255}

GrayPixels ==
  {Transparent} \cup {<<r, g, b, 255>> : r \in GrayChannels, g \in GrayChannels,
                                         b \in GrayChannels}

\* canvases of two pixels; the log starts with the buffer as it is given
GrayBuffers ==
  { Logged([NewCanvas(2, 1) EXCEPT !.px = <<<<p, q>>>>], "input") :
      p \in GrayPixels, q \in GrayPixels }

InitGray ==
  /\ originalImage = Null
  /\ processedImage = Null
  /\ processedImageNoBg = Null
  /\ isProcessing = FALSE
  /\ processingProgress = 0
  /\ processingStep = ""
  /\ effects = [InitialEffects EXCEPT !.bw.enabled = TRUE]
  /\ backgroundColor = "#ffffff"
  /\ blurIntensity = 10
  /\ borderSize = 40
  /\ borderColor = "#FFD700"
  /\ borderChangeTimeout = Null
  /\ colorChangeTimeout = Null
  /\ backgroundOption = "none"
  /\ urls = <<>>
  /\ requests = <<>>
  /\ toMain = <<>>
  /\ renders = <<>>
  /\ canvas \in GrayBuffers
  /\ alerts = <<>>
  /\ consoleErrors = <<>>
  /\ faults = 0
  /\ variant = "worker.ts"

\* the black & white block run on the canvas once more
GrayscalePass ==
  /\ Len(canvas.log) <= MaxPasses
  /\ canvas' = BwStage(canvas, effects)
  /\ UNCHANGED <<originalImage, processedImage, processedImageNoBg, isProcessing,
                 processingProgress, processingStep, effects, backgroundColor,
                 blurIntensity, borderSize, borderColor, borderChangeTimeout, colorChangeTimeout,
              backgroundOption,
                 urls, variant, requests, toMain, renders, alerts, consoleErrors,
                 faults>>

SpecGray == InitGray /\ [][GrayscalePass]_vars

(***************************************************************************)
(* The upload handler of the earliest snapshot of the page: its file input *)
(* is always rendered and the handler takes the file as it comes.  The     *)
(* worker and the message handler are as above (the snapshot's handler     *)
(* differs in the step labels only).                                       *)
(***************************************************************************)
HandleImageUploadUnchecked(file) ==
  /\ Len(requests) < MaxUploads
  /\ urls' = Append(urls, [kind |-> "file", type |-> file.type,
                            fsize |-> file.fsize, img |-> file.img,
                            fg |-> file.fg])
  /\ originalImage' = NextUrl
  /\ processedImage' = Null
  /\ processedImageNoBg' = Null
  /\ isProcessing' = TRUE
  /\ requests' = Append(requests, [imageUrl |-> NextUrl, pc |-> "queued",
                                   out |-> <<>>, cbs |-> 0])
  /\ UNCHANGED alerts
  /\ UploadFrame

NextUnchecked ==
  \/ \E file \in AppFiles : HandleImageUploadUnchecked(file)
  \/ WorkerNext
  \/ OnMessage

SpecUnchecked == Init /\ [][NextUnchecked]_vars

(***************************************************************************)
(* The render function under every combination of the four effects.        *)
(***************************************************************************)
ComboFiles == { MakeSpotFile(4, 3, {<<1, 1>>}, {<<2, 1>>}) }

\* the three modes of the background effect
BackgroundModes ==
  { [type |-> "background", enabled |-> FALSE, options |-> [color |-> "#ffffff"]],
    [type |-> "background", enabled |-> TRUE,
     options |-> [color |-> "#000000", useOriginal |-> FALSE]],
    [type |-> "background", enabled |-> TRUE,
     options |-> [color |-> "#ffffff", useOriginal |-> TRUE]] }

EffectCombos ==
  { [background |-> bg,
     border |-> [type |-> "border", enabled |-> withBorder,
                 options |-> [borderColor |-> "#FFD700", borderSize |-> 20]],
     blur |-> [type |-> "blur", enabled |-> withBlur, options |-> [blur |-> 2]],
     bw |-> [type |-> "bw", enabled |-> withBw, options |-> NoOptions]] :
      bg \in BackgroundModes, withBorder \in BOOLEAN, withBlur \in BOOLEAN,
      withBw \in BOOLEAN }

InitCombos == variant = "worker.ts" /\ \E file \in ComboFiles : Processed(file)

NextCombos ==
  \/ \E fx \in EffectCombos : ApplyBackgroundEffect(<<1>>, <<2>>, fx)
  \/ RenderNext

SpecCombos == InitCombos /\ [][NextCombos]_vars

(***************************************************************************)
(* The editor later in a session: a photo has been processed, the user has *)
(* enabled the outline and chosen a colour for it, and the render of that  *)
(* is displayed.                                                           *)
(***************************************************************************)
SessionFile == MakeFile(ImagePng, 1000, SmallW, 1, 0, 0, FALSE)

\* effects after the Outline header and then a colour swatch were clicked
SessionEffects ==
  EffectUpdate(EffectUpdate(InitialEffects, "border", TRUE, NoOptions),
               "border", TRUE, [borderColor |-> "#4F46E5"])

\* the shared canvas as the render of SessionEffects left it
SessionCanvas ==
  DrawStages(NewCanvas(DefaultCanvasWidth, DefaultCanvasHeight), SessionFile.img,
             SessionFile.fg, SessionEffects,
             [bgCtx |-> TRUE, tempCtx |-> TRUE, maskCtx |-> TRUE]).canvas

InitSession ==
  /\ originalImage = <<1>>
  /\ processedImage = <<3>>
  /\ processedImageNoBg = <<2>>
  /\ isProcessing = FALSE
  /\ processingProgress = 0
  /\ processingStep = ""
  /\ effects = SessionEffects
  /\ backgroundColor = "#ffffff"
  /\ blurIntensity = 10
  /\ borderSize = 40
  /\ borderColor = "#4F46E5"
  /\ borderChangeTimeout = Null
  /\ colorChangeTimeout = Null
  /\ backgroundOption = "none"
  /\ urls = <<[kind |-> "file", type |-> SessionFile.type,
               fsize |-> SessionFile.fsize, img |-> SessionFile.img,
               fg |-> SessionFile.fg],
              [kind |-> "foreground", img |-> SessionFile.fg, of |-> <<1>>],
              [kind |-> "render", img |-> ToBlob(SessionCanvas)]>>
  /\ requests = <<[imageUrl |-> <<1>>, pc |-> "done", cbs |-> 0,
                   out |-> <<ProgressMsg(10), ProgressMsg(30), ProgressMsg(100),
                             CompleteMsg(TRUE, SessionFile.fg, "")>>]>>
  /\ toMain = <<>>
  /\ renders = <<>>
  /\ canvas = SessionCanvas
  /\ alerts = <<>>
  /\ consoleErrors = <<>>
  /\ faults = 0
  /\ variant = "worker.ts"

NextSession == EffectNext \/ RenderNext

SpecSession == InitSession /\ [][NextSession]_vars

(***************************************************************************)
(* The editor of the earliest snapshot of the page: one background option  *)
(* at a time (none, blur, bw, color) and a colour input whose changes are  *)
(* debounced.  Its renders are records of the option and of the colour and *)
(* blur intensity that applyBackgroundEffect closes over.                  *)
(***************************************************************************)
BackgroundOptions == {"none", "blur", "bw", "color"}
PickerColors == {"#336699", "#000000"}

\* what a handler created in the current React render of that page closes
\* over: applyBackgroundEffect is memoised on backgroundColor and
\* blurIntensity, handleBackgroundChange on the two images and on it
OptionClosure ==
  [originalImage |-> originalImage, processedImageNoBg |-> processedImageNoBg,
   backgroundOption |-> backgroundOption, backgroundColor |-> backgroundColor,
   blurIntensity |-> blurIntensity]

\* handleBackgroundChange as created in the React render of closure cl, up to
\* the first await of applyBackgroundEffect
HandleBackgroundChange(cl, option) ==
  IF cl.originalImage = Null \/ cl.processedImageNoBg = Null
  THEN UNCHANGED <<backgroundOption, processedImage, renders, faults>>
  ELSE /\ backgroundOption' = option
       /\ IF option = "none"
          THEN /\ processedImage' = cl.processedImageNoBg
               /\ UNCHANGED <<renders, faults>>
          ELSE /\ Len(renders) < MaxRenders
               /\ UNCHANGED processedImage
               /\ \E ctx \in (IF HasContext \/ faults >= MaxFaults THEN {TRUE}
                              ELSE BOOLEAN) :
                    /\ faults' = IF ctx THEN faults ELSE faults + 1
                    /\ renders' = Append(renders,
                         [originalUrl |-> cl.originalImage,
                          foregroundUrl |-> cl.processedImageNoBg,
                          option |-> option,
                          backgroundColor |-> cl.backgroundColor,
                          blurIntensity |-> cl.blurIntensity,
                          hadCtx |-> ctx,
                          pc |-> IF ctx THEN "loading" ELSE "returned",
                          log |-> <<>>, snapshot |-> NoBlob, result |-> Null])

OptionFrame ==
  UNCHANGED <<originalImage, processedImageNoBg, isProcessing, processingProgress,
              processingStep, effects, borderSize, borderColor,
              borderChangeTimeout, urls, variant, requests, toMain, canvas,
              alerts, consoleErrors>>

\* onClick of one of the four background buttons
SelectOption(option) ==
  /\ ControlsShown
  /\ HandleBackgroundChange(OptionClosure, option)
  /\ UNCHANGED <<backgroundColor, blurIntensity, colorChangeTimeout>>
  /\ OptionFrame

\* the change event of the colour input, shown while the option is color:
\* the timer replaces the pending one; its callback closes over the
\* backgroundOption and the handleBackgroundChange of the current React render
HandleColorChange(newColor) ==
  /\ ControlsShown
  /\ backgroundOption = "color"
  /\ Len(renders) < MaxRenders
  /\ backgroundColor' = newColor
  /\ colorChangeTimeout' = <<[closure |-> OptionClosure]>>
  /\ UNCHANGED <<backgroundOption, processedImage, renders, blurIntensity, faults>>
  /\ OptionFrame

\* the 100 ms timer fires
ColorTimeoutFires ==
  /\ colorChangeTimeout # Null
  /\ IF colorChangeTimeout[1].closure.backgroundOption = "color"
     THEN HandleBackgroundChange(colorChangeTimeout[1].closure, "color")
     ELSE UNCHANGED <<backgroundOption, processedImage, renders, faults>>
  /\ colorChangeTimeout' = Null
  /\ UNCHANGED <<backgroundColor, blurIntensity>>
  /\ OptionFrame

\* applyBackgroundEffect of that page from `canvas.width =` to the last
\* drawImage; tempCtx tells whether the scratch canvas of the blur branch
\* got a context
DrawOption(c, originalImg, foregroundImg, option, color, blur, tempCtx) ==
  LET c0 == ClearRect(SetCanvasSize(c, originalImg.w, originalImg.h))
      c1 == FillRect(c0, 0, 0, c0.w, c0.h, ColorRGB(color))
      c2 == DrawImage(c1, originalImg, 0, 0)
      temp == CanvasImage(c2)
      c3 == DrawImage([c2 EXCEPT !.filter = <<blur>>], temp, 0, 0)
      c4 == [c3 EXCEPT !.filter = <<>>]
      c5 == [c2 EXCEPT !.px = Bitmap(c2.w, c2.h, LAMBDA x, y : Gray(ImgAt(c2, x, y)))]
  IN CASE option = "none" -> [canvas |-> DrawImage(c0, foregroundImg, 0, 0), ok |-> TRUE]
       [] option = "color" -> [canvas |-> DrawImage(c1, foregroundImg, 0, 0), ok |-> TRUE]
       [] option = "blur" /\ ~tempCtx -> [canvas |-> c2, ok |-> FALSE]
       [] option = "blur" /\ tempCtx ->
            [canvas |-> DrawImage(c4, foregroundImg, 0, 0), ok |-> TRUE]
       [] option = "bw" -> [canvas |-> DrawImage(c5, foregroundImg, 0, 0), ok |-> TRUE]

\* both images are loaded: applyBackgroundEffect runs to the toBlob call
OptionImagesLoaded(r) ==
  /\ renders[r].pc = "loading"
  /\ \E tempCtx \in (IF renders[r].option = "blur" /\ faults < MaxFaults
                     THEN BOOLEAN ELSE {TRUE}) :
       \E drawn \in {DrawOption(canvas, urls[renders[r].originalUrl[1]].img,
                                urls[renders[r].foregroundUrl[1]].img,
                                renders[r].option, renders[r].backgroundColor,
                                renders[r].blurIntensity, tempCtx)} :
          /\ canvas' = drawn.canvas
          /\ faults' = IF tempCtx THEN faults ELSE faults + 1
          /\ renders' = [renders EXCEPT
               ![r].pc = IF drawn.ok THEN "encoding" ELSE "returned",
               ![r].snapshot = IF drawn.ok THEN ToBlob(drawn.canvas) ELSE NoBlob]
  /\ UNCHANGED <<processedImage, urls>>
  /\ RenderFrame

NextColour ==
  \/ \E option \in BackgroundOptions : SelectOption(option)
  \/ \E newColor \in PickerColors : HandleColorChange(newColor)
  \/ ColorTimeoutFires
  \/ \E r \in 1 .. Len(renders) :
       \/ OptionImagesLoaded(r)
       \/ RenderBlobReady(r)
       \/ RenderBlobNull(r)

SpecColour == InitRender /\ [][NextColour]_vars

(***************************************************************************)
(* Properties.                                                             *)
(***************************************************************************)
Renders == 1 .. Len(renders)

\* the render has run its draw calls
Drew(r) == renders[r].log # <<>>

\* the render handed the canvas to the encoder
Encoded(r) == renders[r].pc \in {"encoding", "done", "pending"}

StageNames(log) == [i \in 1 .. Len(log) |-> log[i].stage]

OriginalOf(r) == urls[renders[r].originalUrl[1]].img

ForegroundOf(r) == urls[renders[r].foregroundUrl[1]].img

AllContexts == [bgCtx |-> TRUE, tempCtx |-> TRUE, maskCtx |-> TRUE]

\* the stages a render with effects fx goes through, in the order of the
\* ordering contract; blur and border need their scratch contexts
StagesInOrder(fx, env) ==
  <<"background">>
  \o (IF fx.blur.enabled /\ env.bgCtx THEN <<"blur">> ELSE <<>>)
  \o (IF fx.bw.enabled THEN <<"bw">> ELSE <<>>)
  \o <<"foreground">>
  \o (IF fx.border.enabled /\ env.tempCtx /\ env.maskCtx
      THEN <<"border", "foreground">> ELSE <<>>)

\* C1: every render applies its stages in the fixed order background, blur,
\* grayscale, foreground, border + foreground: the stages it has drawn are
\* exactly the enabled ones in that order, with one foreground draw between
\* grayscale and border.
C1_StageOrder ==
  \A r \in Renders :
    Drew(r) => StageNames(renders[r].log)
                 = StagesInOrder(renders[r].currentEffects, renders[r].env)

\* a render with grayscale and border enabled has drawn all its stages
C1_Witness ==
  \E r \in Renders :
    StageNames(renders[r].log)
      = <<"background", "bw", "foreground", "border", "foreground">>

\* C2: a render is started only with a foreground that a successful complete
\* message delivered for the image that is current (the render's original).
C2_RenderAfterCompleteOfCurrent ==
  \A r \in Renders :
    /\ urls[renders[r].foregroundUrl[1]].kind = "foreground"
    /\ urls[renders[r].foregroundUrl[1]].of = renders[r].originalUrl

IsProgress(m) == m.type = "progress"

IsComplete(m) == m.type = "complete"

\* C3: the messages the worker posts for one request are progress messages
\* followed by at most one complete message, which is the last one and is
\* there once the request has run to its end; a successful one carries a blob.
C3_ProgressThenOneComplete ==
  \A i \in 1 .. Len(requests) :
    LET out == requests[i].out IN
      /\ \A k \in 1 .. Len(out) : IsComplete(out[k]) => k = Len(out)
      /\ \A k \in 1 .. Len(out) : IsProgress(out[k]) \/ IsComplete(out[k])
      /\ requests[i].pc = "done" <=> (out # <<>> /\ IsComplete(out[Len(out)]))
      /\ \A k \in 1 .. Len(out) :
           IsComplete(out[k]) /\ out[k].success => out[k].blob # NoBlob

\* a request of a worker with a progress callback failed in removeBackground
\* after the library had reported progress
C3_Witness ==
  \E i \in 1 .. Len(requests) :
    /\ requests[i].pc = "done"
    /\ requests[i].cbs > 0
    /\ ~requests[i].out[Len(requests[i].out)].success

\* C4: within one request the progress values posted are non-decreasing
\* integers in 0 .. 100.
C4_ProgressMonotone ==
  \A i \in 1 .. Len(requests) :
    LET out == requests[i].out IN
      \A j \in 1 .. Len(out) : \A k \in j .. Len(out) :
        IsProgress(out[j]) /\ IsProgress(out[k])
          => /\ out[j].progress \in 0 .. 100
             /\ out[j].progress <= out[k].progress

\* C5: the result of a render is committed to processedImage only while that
\* render is the most recently started one.
C5_OnlyLatestCommitted ==
  [][\A r \in Renders :
       renders[r].pc = "encoding" /\ renders'[r].pc = "done" => r = Len(renders)]_vars

\* C6: whatever the interleaving of the renders, the bitmap a render hands to
\* the encoder is the one its own resize, clear and stage draws produce.
C6_SnapshotIsOwnDrawing ==
  [][\A r \in Renders :
       renders[r].pc = "loading" /\ renders'[r].pc = "encoding"
         => renders'[r].snapshot
              = CanvasImage(DrawStages(NewCanvas(OriginalOf(r).w, OriginalOf(r).h),
                                       OriginalOf(r), ForegroundOf(r),
                                       renders[r].currentEffects,
                                       renders'[r].env).canvas)]_vars

\* two renders with different results are both at the encoder: the second
\* drew on the shared canvas while the first was being encoded
C6_Witness ==
  /\ Len(renders) = 2
  /\ renders[1].pc = "encoding"
  /\ renders[2].pc = "encoding"
  /\ renders[1].snapshot # renders[2].snapshot

\* C7: the shared canvas carries no filter and no composite mode from one
\* render to the next, and a render about to draw gets from the canvas as
\* earlier renders left it what it would get from a fresh canvas element.
C7_NoLeakBetweenRenders ==
  /\ canvas.filter = <<>>
  /\ canvas.gco = "source-over"
  /\ \A r \in Renders :
       renders[r].pc = "loading"
         => DrawStages(canvas, OriginalOf(r), ForegroundOf(r),
                       renders[r].currentEffects, AllContexts)
              = DrawStages(NewCanvas(DefaultCanvasWidth, DefaultCanvasHeight),
                           OriginalOf(r), ForegroundOf(r),
                           renders[r].currentEffects, AllContexts)

\* a render is about to draw on the canvas that a render with blur (and so
\* with destination-out) has used
C7_Witness ==
  /\ Len(renders) = 2
  /\ renders[2].pc = "loading"
  /\ "blur" \in {renders[1].log[i].stage : i \in 1 .. Len(renders[1].log)}
  /\ canvas.log = renders[1].log
  /\ renders[2].currentEffects # renders[1].currentEffects

\* the colour of the checkerboard at pixel (x, y): 32-pixel squares, white
\* when the corner coordinates of the square add up to a multiple of 64
TileColor(x, y) ==
  IF (32 * (x \div 32) + 32 * (y \div 32)) % 64 = 0
  THEN <<255, 255, 255>> ELSE <<245, 247, 250>>

NoEffects(fx) ==
  ~fx.background.enabled /\ ~fx.blur.enabled /\ ~fx.bw.enabled /\ ~fx.border.enabled

\* C8: with every effect disabled the output is the foreground drawn
\* source-over on the checkerboard.
C8_PlainRenderOnCheckerboard ==
  \A r \in Renders :
    Encoded(r) /\ NoEffects(renders[r].currentEffects)
      => /\ renders[r].snapshot.w = OriginalOf(r).w
         /\ renders[r].snapshot.h = OriginalOf(r).h
         /\ \A x \in 0 .. OriginalOf(r).w - 1 : \A y \in 0 .. OriginalOf(r).h - 1 :
              ImgAt(renders[r].snapshot, x, y)
                = SourceOver(ImgAt(ForegroundOf(r), x, y), Opaque(TileColor(x, y)))

\* a render without effects of the photo that is three squares wide
C8_Witness ==
  \E r \in Renders :
    /\ Encoded(r)
    /\ NoEffects(renders[r].currentEffects)
    /\ renders[r].snapshot.w = WideW

\* the layer the background stage must leave for effects fx
BackgroundLayer(r, x, y) ==
  LET bg == renders[r].currentEffects.background IN
    IF ~bg.enabled THEN Opaque(TileColor(x, y))
    ELSE IF "useOriginal" \in DOMAIN bg.options /\ bg.options.useOriginal
    THEN ImgAt(OriginalOf(r), x, y)
    ELSE Opaque(ColorRGB(bg.options.color))

\* C9: the background stage applies exactly one mode: the checkerboard when
\* the background is disabled, else the original alone when useOriginal is
\* set (whatever colour is stored), else the solid colour.
C9_OneBackgroundMode ==
  \A r \in Renders :
    Drew(r)
      => \A x \in 0 .. OriginalOf(r).w - 1 : \A y \in 0 .. OriginalOf(r).h - 1 :
           renders[r].log[1].px[y + 1][x + 1] = BackgroundLayer(r, x, y)

\* a render with useOriginal set while a colour other than the initial one
\* is stored, of a photo with transparent pixels
C9_Witness ==
  \E r \in Renders :
    /\ Drew(r)
    /\ renders[r].currentEffects.background.enabled
    /\ "useOriginal" \in DOMAIN renders[r].currentEffects.background.options
    /\ renders[r].currentEffects.background.options.useOriginal
    /\ renders[r].currentEffects.background.options.color = "#000000"
    /\ \E x \in 0 .. OriginalOf(r).w - 1 : ImgAt(OriginalOf(r), x, 0) = Transparent

UploadAlerts == {"Please upload an image file", "File size must be less than 5MB"}

\* C10: once a failed complete message has been handled, a message about the
\* failure has been shown to the user.
C10_FailureShownToUser ==
  consoleErrors # <<>>
    => \E i \in 1 .. Len(alerts) : alerts[i] \notin UploadAlerts

\* a getContext('2d') call of render r returned null
ContextFailed(r) == ~renders[r].hadCtx \/ Failures(renders[r].env) > 0

\* C11: a render one of whose stages could not get its drawing context is
\* aborted: it hands nothing to the encoder and commits nothing.
C11_AbortOnMissingContext ==
  \A r \in Renders :
    ContextFailed(r) => ~Encoded(r) /\ renders[r].result = Null

SameDimensions(a, b) == a.w = b.w /\ a.h = b.h

\* C12: a render whose original and foreground differ in size draws nothing
\* and commits nothing; any other render that drew did so on a canvas of the
\* size of its images.
C12_MismatchRejected ==
  \A r \in Renders :
    /\ ~SameDimensions(OriginalOf(r), ForegroundOf(r))
         => ~Drew(r) /\ ~Encoded(r) /\ renders[r].result = Null
    /\ SameDimensions(OriginalOf(r), ForegroundOf(r)) /\ Drew(r)
         => \A k \in 1 .. Len(renders[r].log) :
              /\ Len(renders[r].log[k].px) = OriginalOf(r).h
              /\ \A y \in 1 .. OriginalOf(r).h :
                   Len(renders[r].log[k].px[y]) = OriginalOf(r).w

\* the call of applyBackgroundEffect has returned to handleEffectChange
Terminated(r) == renders[r].pc \in {"done", "returned"}

\* C13: when the encoder answers, with a blob or without, the render call
\* terminates (the toBlob callback is the only code that can settle its
\* promise), and it commits an output only if a blob was delivered.
C13_EncodingFailureTerminates ==
  [][\A r \in Renders :
       renders[r].pc = "encoding" /\ renders'[r].pc # "encoding"
         => /\ Terminated(r)'
            /\ (faults' > faults => renders'[r].result = Null)]_vars

\* the object URLs created by renders that are still held: no handler ever
\* takes an entry out of urls (the page never calls URL.revokeObjectURL)
LiveRenderUrls == {u \in 1 .. Len(urls) : urls[u].kind = "render"}

\* C14: a committed render supersedes the previous artifact and releases its
\* handle: the only render handle still held is the one being displayed.
C14_SupersededHandlesReleased ==
  \A u \in LiveRenderUrls : processedImage = <<u>>

\* the render drew its border: the last two entries of its log are the
\* border and the foreground drawn again
BorderDrawn(r) ==
  /\ Len(renders[r].log) >= 3
  /\ renders[r].log[Len(renders[r].log) - 1].stage = "border"

\* the canvas of render r just before, and just after, the border was drawn
BeforeBorder(r) == renders[r].log[Len(renders[r].log) - 2].px

AfterBorder(r) == renders[r].log[Len(renders[r].log) - 1].px

BorderColorOf(r) == ColorRGB(renders[r].currentEffects.border.options.borderColor)

\* thickness = max(1, floor(borderSizePx / 8))
ClaimedThickness(sizePx) == IF sizePx \div 8 >= 1 THEN sizePx \div 8 ELSE 1

ThicknessOf(r) == ClaimedThickness(renders[r].currentEffects.border.options.borderSize)

\* some pixel of the foreground with alpha at least minAlpha lies within
\* distance t of (x, y)
NearSubject(fg, x, y, t, minAlpha) ==
  \E qx \in 0 .. fg.w - 1 : \E qy \in 0 .. fg.h - 1 :
    /\ ImgAt(fg, qx, qy)[4] >= minAlpha
    /\ (x - qx) * (x - qx) + (y - qy) * (y - qy) <= t * t

\* C15: the border stage paints the disk dilation of the foreground
\* silhouette: it changes a canvas pixel if and only if a foreground pixel of
\* non-zero alpha lies within thickness of it, the pixel becomes the border
\* colour where an opaque foreground pixel does, and every other pixel is
\* left as it was.
C15_BorderIsDiskDilation ==
  \A r \in Renders :
    BorderDrawn(r)
      => \A x \in 0 .. OriginalOf(r).w - 1 : \A y \in 0 .. OriginalOf(r).h - 1 :
           /\ NearSubject(ForegroundOf(r), x, y, ThicknessOf(r), 1)
                <=> AfterBorder(r)[y + 1][x + 1] # BeforeBorder(r)[y + 1][x + 1]
           /\ NearSubject(ForegroundOf(r), x, y, ThicknessOf(r), 255)
                => AfterBorder(r)[y + 1][x + 1] = Opaque(BorderColorOf(r))

\* a border was drawn that leaves alone a pixel within thickness of the
\* subject along each axis but farther than thickness from it
C15_Witness ==
  \E r \in Renders :
    /\ BorderDrawn(r)
    /\ ThicknessOf(r) >= 2
    /\ \E x \in 0 .. OriginalOf(r).w - 1 : \E y \in 0 .. OriginalOf(r).h - 1 :
         /\ ~NearSubject(ForegroundOf(r), x, y, ThicknessOf(r), 1)
         /\ \E qx \in 0 .. OriginalOf(r).w - 1 : \E qy \in 0 .. OriginalOf(r).h - 1 :
              /\ ImgAt(ForegroundOf(r), qx, qy)[4] > 0
              /\ x - qx \in 0 - ThicknessOf(r) .. ThicknessOf(r)
              /\ y - qy \in 0 - ThicknessOf(r) .. ThicknessOf(r)
         /\ AfterBorder(r)[y + 1][x + 1] = BeforeBorder(r)[y + 1][x + 1]

\* what render r would hand to the encoder with its border disabled
WithoutBorder(r) ==
  CanvasImage(DrawStages(NewCanvas(OriginalOf(r).w, OriginalOf(r).h),
                         OriginalOf(r), ForegroundOf(r),
                         [renders[r].currentEffects EXCEPT !.border.enabled = FALSE],
                         renders[r].env).canvas)

\* C16: the border never overlaps the subject: wherever the foreground has
\* alpha above zero, the output of a render with border is the pixel the same
\* render gives with border disabled.
C16_BorderNeverOverlapsSubject ==
  \A r \in Renders :
    BorderDrawn(r) /\ Encoded(r)
      => \A x \in 0 .. OriginalOf(r).w - 1 : \A y \in 0 .. OriginalOf(r).h - 1 :
           ImgAt(ForegroundOf(r), x, y)[4] > 0
             => ImgAt(renders[r].snapshot, x, y) = ImgAt(WithoutBorder(r), x, y)

\* the same, at the pixels where the foreground is opaque
OpaqueSubjectUnobstructed ==
  \A r \in Renders :
    BorderDrawn(r) /\ Encoded(r)
      => \A x \in 0 .. OriginalOf(r).w - 1 : \A y \in 0 .. OriginalOf(r).h - 1 :
           ImgAt(ForegroundOf(r), x, y)[4] = 255
             => ImgAt(renders[r].snapshot, x, y) = ImgAt(WithoutBorder(r), x, y)

\* the mask canvas of the border of render r, and the temporary canvas cut
\* with a mask
MaskOf(r) ==
  BorderMask(NewCanvas(OriginalOf(r).w, OriginalOf(r).h), ForegroundOf(r),
             Thickness(renders[r].currentEffects.border.options.borderSize))

TempOf(r, mask) ==
  BorderLayer(NewCanvas(OriginalOf(r).w, OriginalOf(r).h), mask,
              renders[r].currentEffects.border.options.borderColor,
              Thickness(renders[r].currentEffects.border.options.borderSize))

\* the bitmap px is w wide and h high
HasSize(px, w, h) ==
  /\ Len(px) = h
  /\ \A y \in 1 .. h : Len(px[y]) = w

\* canvases a and b are both the image of render r grown by its thickness on
\* each side
BothPadded(r, a, b) ==
  LET w == OriginalOf(r).w + 2 * ThicknessOf(r)
      h == OriginalOf(r).h + 2 * ThicknessOf(r)
  IN /\ a.w = w /\ a.h = h /\ HasSize(a.px, w, h)
     /\ b.w = w /\ b.h = h /\ HasSize(b.px, w, h)

\* C17: the thickness max(1, floor(sizePx / 8)) does not decrease as sizePx
\* grows from 0 to the largest size of the slider, it is 1 at 0, 5 at 40 and
\* 25 at 200, and the mask and temporary canvases of a border are the image
\* grown by thickness pixels on each side.
C17_ThicknessAndPadding ==
  /\ \A sizePx \in 0 .. MaxBorderSize - 1 : Thickness(sizePx) <= Thickness(sizePx + 1)
  /\ \A sizePx \in 0 .. MaxBorderSize : Thickness(sizePx) = ClaimedThickness(sizePx)
  /\ Thickness(0) = 1 /\ Thickness(40) = 5 /\ Thickness(200) = 25
  /\ \A r \in Renders :
       BorderDrawn(r)
         => \E mask \in {MaskOf(r)} : \E temp \in {TempOf(r, mask)} :
              BothPadded(r, mask, temp)

\* borders of thickness 1 (size 0) and of thickness 5 (size 40) were drawn
C17_Witness ==
  /\ \E r \in Renders :
       BorderDrawn(r) /\ renders[r].currentEffects.border.options.borderSize = 0
  /\ \E r \in Renders :
       BorderDrawn(r) /\ renders[r].currentEffects.border.options.borderSize = 40

BwEntries(r) == {k \in 2 .. Len(renders[r].log) : renders[r].log[k].stage = "bw"}

\* m is (a + b + c) / 3 rounded to the nearest integer
IsRoundedMean(m, a, b, c) ==
  /\ m \in 0 .. 255
  /\ 3 * m - (a + b + c) \in {0 - 1, 0, 1}

\* C19: the grayscale stage sets R, G and B of every canvas pixel to their
\* unweighted mean rounded to the nearest integer and leaves alpha as it was.
C19_GrayscaleIsRoundedMean ==
  \A r \in Renders : \A k \in BwEntries(r) :
    \A y \in 1 .. Len(renders[r].log[k].px) :
      \A x \in 1 .. Len(renders[r].log[k].px[y]) :
        LET before == renders[r].log[k - 1].px[y][x]
            after == renders[r].log[k].px[y][x]
        IN /\ after[4] = before[4]
           /\ after[1] = after[2] /\ after[2] = after[3]
           /\ IsRoundedMean(after[1], before[1], before[2], before[3])

\* grayscale was applied to a canvas with a coloured pixel whose mean is
\* rounded up and with a transparent pixel
C19_Witness ==
  \E r \in Renders : \E k \in BwEntries(r) :
    /\ \E y \in 1 .. Len(renders[r].log[k].px) :
         \E x \in 1 .. Len(renders[r].log[k].px[y]) :
           LET before == renders[r].log[k - 1].px[y][x]
           IN before[1] # before[2] /\ (before[1] + before[2] + before[3]) % 3 = 2
    /\ \E y \in 1 .. Len(renders[r].log[k].px) :
         \E x \in 1 .. Len(renders[r].log[k].px[y]) :
           renders[r].log[k - 1].px[y][x][4] = 0

\* C20: grayscale is idempotent: every application of the transform after
\* the first leaves the buffer exactly as the first one left it.
C20_GrayscaleIdempotent ==
  \A k \in 3 .. Len(canvas.log) :
    canvas.log[k].stage = "bw" /\ canvas.log[2].stage = "bw"
      => canvas.log[k].px = canvas.log[2].px

\* the transform was applied twice to a buffer that its first application
\* changed
C20_Witness ==
  /\ Len(canvas.log) >= 3
  /\ canvas.log[1].stage = "input"
  /\ canvas.log[2].stage = "bw" /\ canvas.log[3].stage = "bw"
  /\ canvas.log[2].px # canvas.log[1].px

\* every pixel of the image has alpha 255
FullyOpaque(img) ==
  \A x \in 0 .. img.w - 1 : \A y \in 0 .. img.h - 1 : ImgAt(img, x, y)[4] = 255

\* the background is a solid colour and no other effect is enabled
SolidBackgroundOnly(fx) ==
  /\ fx.background.enabled
  /\ ~Opt(fx.background.options, "useOriginal", FALSE)
  /\ ~fx.blur.enabled /\ ~fx.bw.enabled /\ ~fx.border.enabled

\* C21: with a solid background colour and no other effect, the output of a
\* render whose foreground is opaque at every pixel is the foreground itself,
\* pixel for pixel, whatever the colour.
C21_OpaqueSubjectHidesBackground ==
  \A r \in Renders :
    /\ Encoded(r)
    /\ FullyOpaque(ForegroundOf(r))
    /\ SolidBackgroundOnly(renders[r].currentEffects)
    => renders[r].snapshot = ForegroundOf(r)

\* renders of the all-subject photo on two different solid colours
C21_Witness ==
  \E r1 \in Renders : \E r2 \in Renders :
    /\ Encoded(r1) /\ Encoded(r2)
    /\ FullyOpaque(ForegroundOf(r1))
    /\ SolidBackgroundOnly(renders[r1].currentEffects)
    /\ SolidBackgroundOnly(renders[r2].currentEffects)
    /\ renders[r1].currentEffects.background.options.color
         # renders[r2].currentEffects.background.options.color


\* the file may be handed to the worker: an image of at most 5 MB
Acceptable(file) ==
  /\ StartsWith(file.type, <<"i", "m", "a", "g", "e", "/">>)
  /\ file.fsize <= 5 * 1024 * 1024

C23_SubjectKeepsColour ==
  \A r \in Renders :
    Encoded(r) /\ renders[r].currentEffects.bw.enabled
      => \A x \in 0 .. OriginalOf(r).w - 1 : \A y \in 0 .. OriginalOf(r).h - 1 :
           ImgAt(ForegroundOf(r), x, y)[4] = 255
             => ImgAt(renders[r].snapshot, x, y) = ImgAt(ForegroundOf(r), x, y)

\* a render with grayscale and every other effect enabled, of a photo with an
\* opaque coloured subject pixel, and one with grayscale alone
C23_Witness ==
  /\ \E r \in Renders :
       /\ Encoded(r)
       /\ renders[r].currentEffects.bw.enabled
       /\ renders[r].currentEffects.blur.enabled
       /\ renders[r].currentEffects.border.enabled
       /\ renders[r].currentEffects.background.enabled
       /\ \E x \in 0 .. OriginalOf(r).w - 1 : \E y \in 0 .. OriginalOf(r).h - 1 :
            /\ ImgAt(ForegroundOf(r), x, y)[4] = 255
            /\ ImgAt(ForegroundOf(r), x, y)[1] # ImgAt(ForegroundOf(r), x, y)[2]
  /\ \E r \in Renders :
       /\ Encoded(r)
       /\ renders[r].currentEffects.bw.enabled
       /\ ~renders[r].currentEffects.blur.enabled
       /\ ~renders[r].currentEffects.border.enabled
       /\ ~renders[r].currentEffects.background.enabled


\* the positions of the blur stage in the log of render r
BlurEntries(r) == {k \in 2 .. Len(renders[r].log) : renders[r].log[k].stage = "blur"}

\* the background of render r after it was blurred, at (x, y): the canvas
\* left by the stage before, drawn over itself through the blur filter
BlurredBackground(r, k, x, y) ==
  LET bg == [w |-> OriginalOf(r).w, h |-> OriginalOf(r).h,
             px |-> renders[r].log[k - 1].px]
  IN SourceOver(BlurAt(bg, renders[r].currentEffects.blur.options.blur, x, y),
                ImgAt(bg, x, y))

\* C24: right after the blur stage the canvas has a hole in the shape of the
\* subject: it is transparent where the foreground is opaque, it holds the
\* blurred background where the foreground is transparent, and its composite
\* mode is source-over again (and its filter is off).
C24_BlurLeavesSubjectHole ==
  \A r \in Renders : \A k \in BlurEntries(r) :
    /\ renders[r].log[k].gco = "source-over"
    /\ renders[r].log[k].filter = <<>>
    /\ \A x \in 0 .. OriginalOf(r).w - 1 : \A y \in 0 .. OriginalOf(r).h - 1 :
         /\ ImgAt(ForegroundOf(r), x, y)[4] = 255
              => renders[r].log[k].px[y + 1][x + 1] = Transparent
         /\ ImgAt(ForegroundOf(r), x, y)[4] = 0
              => renders[r].log[k].px[y + 1][x + 1] = BlurredBackground(r, k, x, y)

\* the original photo was blurred as the background: a pixel outside the
\* subject was changed by the blur and a pixel of the subject was erased
C24_Witness ==
  \E r \in Renders : \E k \in BlurEntries(r) :
    /\ \E x \in 0 .. OriginalOf(r).w - 1 : \E y \in 0 .. OriginalOf(r).h - 1 :
         /\ ImgAt(ForegroundOf(r), x, y)[4] = 0
         /\ renders[r].log[k].px[y + 1][x + 1] # renders[r].log[k - 1].px[y + 1][x + 1]
    /\ \E x \in 0 .. OriginalOf(r).w - 1 : \E y \in 0 .. OriginalOf(r).h - 1 :
         /\ ImgAt(ForegroundOf(r), x, y)[4] = 255
         /\ renders[r].log[k - 1].px[y + 1][x + 1] # Transparent


EffectTypes == {"background", "border", "blur", "bw"}

\* a handleEffectChange call that got past its guard ran in this step
EffectChanged == Len(renders') = Len(renders) + 1

\* the arguments of that call
LastUpdate == renders'[Len(renders')].update

\* C25: an effect update gives a new config that differs from the old one in
\* the named effect only, keeps the option fields of that effect which the
\* update does not mention, and hands to the render the very config it
\* stores in state.
C25_UpdateTouchesNamedEffectOnly ==
  [][EffectChanged
       => /\ \A t \in EffectTypes \ {LastUpdate.effectType} : effects'[t] = effects[t]
          /\ \A f \in DOMAIN effects[LastUpdate.effectType].options :
               f \notin DOMAIN LastUpdate.options
                 => /\ f \in DOMAIN effects'[LastUpdate.effectType].options
                    /\ effects'[LastUpdate.effectType].options[f]
                         = effects[LastUpdate.effectType].options[f]
          /\ renders'[Len(renders')].currentEffects = effects']_vars

\* the part of C25 that is about the other three effects
OtherEffectsUntouched ==
  [][EffectChanged
       => \A t \in EffectTypes \ {LastUpdate.effectType} : effects'[t] = effects[t]]_vars


\* C26: an update that names no border colour keeps the colour the user
\* chose: the colour stored in effects.border.options, and the one the render
\* started by the update uses, are the colour stored before.
C26_BorderColourPreserved ==
  [][EffectChanged /\ "borderColor" \notin DOMAIN LastUpdate.options
       => /\ effects'.border.options.borderColor = effects.border.options.borderColor
          /\ renders'[Len(renders')].currentEffects.border.options.borderColor
               = effects.border.options.borderColor]_vars


\* no debounce timer is pending, every render call has come back, and no
\* call into the platform has failed
Quiescent ==
  /\ borderChangeTimeout = Null
  /\ \A r \in Renders : Terminated(r)
  /\ faults = 0

\* what the render of the current settings looks like
RenderOfCurrentSettings ==
  CanvasImage(DrawStages(NewCanvas(DefaultCanvasWidth, DefaultCanvasHeight),
                         urls[originalImage[1]].img, urls[processedImageNoBg[1]].img,
                         effects, AllContexts).canvas)

\* C27: once every debounce timer has fired and every render has finished,
\* the displayed image is the render of the settings held in state.
C27_DisplayedMatchesSettings ==
  Quiescent /\ renders # <<>> => urls[processedImage[1]].img = RenderOfCurrentSettings


\* the blob behind object URL u was made from the upload that is current:
\* it is the foreground cut out of it, or a render of it and its foreground
DerivedFromCurrent(u) ==
  \/ /\ urls[u[1]].kind = "foreground"
     /\ urls[u[1]].of = originalImage
  \/ /\ urls[u[1]].kind = "render"
     /\ \E r \in Renders :
          /\ renders[r].result = u
          /\ renders[r].originalUrl = originalImage
          /\ urls[renders[r].foregroundUrl[1]].of = originalImage

\* C28: what is displayed belongs to the current upload: processedImage and
\* processedImageNoBg, when set, were derived from the current originalImage.
C28_ResultsBelongToCurrentUpload ==
  /\ processedImageNoBg # Null => DerivedFromCurrent(processedImageNoBg)
  /\ processedImage # Null => DerivedFromCurrent(processedImage)


\* the page has not yet handled a complete message for request i: the worker
\* has not posted it, or it is still on its way
Outstanding(i) ==
  \/ requests[i].pc # "done"
  \/ \E k \in 1 .. Len(toMain) : toMain[k].req = i /\ IsComplete(toMain[k].msg)

\* C29: the processing indicator is consistent with the worker: isProcessing
\* holds exactly while the complete message of some request is outstanding,
\* and while it does not hold the progress is 0 and the step label is empty.
C29_IndicatorMatchesWorker ==
  /\ isProcessing <=> \E i \in 1 .. Len(requests) : Outstanding(i)
  /\ ~isProcessing => processingProgress = 0 /\ processingStep = ""


\* a debounce timer fired and started renders
BorderTimerRan == borderChangeTimeout # Null /\ borderChangeTimeout' = Null
ColourTimerRan == colorChangeTimeout # Null /\ colorChangeTimeout' = Null

\* C30: a burst of debounced changes starts exactly one render, issued when
\* the timer of the last change fires, and that render carries the last
\* value of the burst, which is the value the control shows
C30_DebounceCoalesces ==
  [][/\ BorderTimerRan =>
          /\ Len(renders') = Len(renders) + 1
          /\ renders'[Len(renders')].update.options = [borderSize |-> borderSize]
          /\ renders'[Len(renders')].currentEffects.border.options.borderSize
               = borderSize
     /\ ColourTimerRan =>
          /\ Len(renders') = Len(renders) + 1
          /\ renders'[Len(renders')].option = "color"
          /\ renders'[Len(renders')].backgroundColor = backgroundColor]_vars

=============================================================================
